---- MODULE Spec2Model ----
(***************************************************************************)
(* A model of shelvery's RDS backup adapter (shelvery/rds_backup.py,       *)
(* class ShelveryRDSBackup) together with the part of the RDS provider     *)
(* API it talks to.  The provider is the only place state lives: a         *)
(* snapshot catalog per region (manual snapshots with their tags, and the  *)
(* automated snapshots the provider keeps per instance) and the instance   *)
(* catalog.  The adapter is synchronous: one call is in flight at a time;  *)
(* pc names the source line a call in flight is suspended at, frame holds  *)
(* its locals, ret the outcome of the last completed call together with    *)
(* the mutating provider calls it issued.                                  *)
(*                                                                         *)
(* Strings are TLA+ strings; f-strings are modelled with \o.  A provider   *)
(* call is a record whose field api names the operation and whose other    *)
(* fields are exactly the keyword arguments the code passes.               *)
(***************************************************************************)
EXTENDS Integers, Sequences, FiniteSets, TLC

VARIABLES
    rds_mode,        \* what RuntimeConfig.get_rds_mode() returns when read now
    snapshots,       \* region -> (snapshot id -> manual snapshot record)
    auto_count,      \* instance id -> number of automated snapshots kept
    provider_order,  \* the order in which the provider lists snapshots
    instances,       \* the provider's instance catalog, in listing order
    pc,              \* "idle", or the source line the call in flight is at
    frame,           \* locals of the call in flight
    ret              \* outcome of the last completed call, once no call is in flight

vars == <<rds_mode, snapshots, auto_count, provider_order,
          instances, pc, frame, ret>>

\* frame and ret name the method concerned in their field op; these are their
\* values when no call is in flight and when no call has completed
NoFrame == [op |-> "none"]
NoRet == [op |-> "none"]

-----------------------------------------------------------------------------
(* Bounds of the model. *)

\* records the provider puts on one page of an unbounded list call
PageSize == 2
\* list calls after which a pagination loop is no longer followed
MaxCalls == 3
\* most automated snapshots the provider keeps for one instance
MaxAuto == 21
\* most instances in the instance catalog
MaxInstances == 4

(* Program constants. *)

\* MaxRecords passed by backup_from_latest_automated
MaxRecords == 20

RDS_CREATE_SNAPSHOT == "RDS_CREATE_SNAPSHOT"
RDS_COPY_AUTOMATED_SNAPSHOT == "RDS_COPY_AUTOMATED_SNAPSHOT"
BACKUP_MARKER_TAG == "backup-marker"

\* None, as Python has it
None == "None"

\* values the backup-mode option can hold: the two valid ones, unset, unknown
Modes == {RDS_CREATE_SNAPSHOT, RDS_COPY_AUTOMATED_SNAPSHOT, None, "RDS_RESTORE"}

Regions == {"us-east-1", "eu-west-1"}
\* the region the database instances live in
HomeRegion == "us-east-1"
Names == {"bk1", "bk2"}
Prefixes == {"shelvery", "acme"}
ProviderOrders == {"asc", "desc"}

-----------------------------------------------------------------------------
(* Sequences and dictionaries. *)

Min(a, b) == IF a <= b THEN a ELSE b

RECURSIVE SetToSeq(_)
SetToSeq(S) ==
    IF S = {} THEN << >>
    ELSE LET x == CHOOSE y \in S : TRUE IN <<x>> \o SetToSeq(S \ {x})

Reverse(s) == [i \in 1..Len(s) |-> s[Len(s) + 1 - i]]

Range(s) == {s[i] : i \in 1..Len(s)}

\* dict(map(lambda t: (t['Key'], t['Value']), tags)): the last entry of a key wins
TagListToDict(tags) ==
    [k \in {tags[i].Key : i \in 1..Len(tags)} |->
        LET last == CHOOSE i \in 1..Len(tags) :
                        /\ tags[i].Key = k
                        /\ \A j \in (i + 1)..Len(tags) : tags[j].Key # k
        IN  tags[last].Value]

\* list(map(lambda k: {'Key': k, 'Value': d[k]}, d))
DictToTagList(d) ==
    LET keys == SetToSeq(DOMAIN d)
    IN  [i \in 1..Len(keys) |-> [Key |-> keys[i], Value |-> d[keys[i]]]]

EmptyDict == [k \in {} |-> None]

\* sorted(s, key=lambda k: k['SnapshotCreateTime'], reverse=True): a stable
\* sort, so records of equal time keep the order they had in s
RECURSIVE InsertDesc(_, _)
InsertDesc(sorted, x) ==
    IF sorted = << >> THEN <<x>>
    ELSE IF Head(sorted).SnapshotCreateTime >= x.SnapshotCreateTime
         THEN <<Head(sorted)>> \o InsertDesc(Tail(sorted), x)
         ELSE <<x>> \o sorted

RECURSIVE SortedByCreateTimeDesc(_)
SortedByCreateTimeDesc(s) ==
    IF s = << >> THEN << >>
    ELSE InsertDesc(SortedByCreateTimeDesc(SubSeq(s, 1, Len(s) - 1)), s[Len(s)])

-----------------------------------------------------------------------------
(* The provider: what boto3's rds client does with a call. *)

\* botocore checks the keyword arguments against the operation's input shape
\* before any request is sent
ParamsValid(call, required, allowed) ==
    /\ required \subseteq DOMAIN call
    /\ (DOMAIN call) \ {"api"} \subseteq allowed

\* identifier of the i-th automated snapshot the provider keeps for instance e
AutoId(e, i) == "rds:" \o e \o "-" \o ToString(i)

\* creation time of that snapshot; two consecutive ones may share a timestamp
CreateTime(e, i) == IF e = "db1" THEN (i + 1) \div 2 ELSE 100 + i

AutoSnapshot(e, i) ==
    [DBInstanceIdentifier |-> e, SnapshotType |-> "automated",
     SnapshotCreateTime |-> CreateTime(e, i), Tags |-> EmptyDict]

\* ids of the automated snapshots in a region, oldest first, instance by instance
AutoIds(region) ==
    IF region # HomeRegion THEN << >>
    ELSE LET es == SetToSeq(DOMAIN auto_count)
             RECURSIVE Of(_)
             Of(k) == IF k > Len(es) THEN << >>
                      ELSE [i \in 1..auto_count[es[k]] |-> AutoId(es[k], i)] \o Of(k + 1)
         IN  Of(1)

\* the whole snapshot catalog of a region: id -> record
Catalog(cat, region) ==
    LET live  == IF region # HomeRegion THEN {}
                 ELSE UNION {{<<e, i>> : i \in 1..auto_count[e]} :
                                e \in DOMAIN auto_count}
        ids   == DOMAIN cat[region] \cup {AutoId(p[1], p[2]) : p \in live}
    IN  [id \in ids |->
            IF id \in DOMAIN cat[region] THEN cat[region][id]
            ELSE LET p == CHOOSE q \in live : AutoId(q[1], q[2]) = id
                 IN  AutoSnapshot(p[1], p[2])]

SnapshotArn(region, id) == [kind |-> "snapshot", region |-> region, name |-> id]
InstanceArn(region, id) == [kind |-> "db", region |-> region, name |-> id]

\* one element of a describe_db_snapshots response
Described(region, id, rec) ==
    [DBSnapshotIdentifier |-> id,
     DBSnapshotArn |-> SnapshotArn(region, id),
     DBInstanceIdentifier |-> rec.DBInstanceIdentifier,
     SnapshotType |-> rec.SnapshotType,
     SnapshotCreateTime |-> rec.SnapshotCreateTime]

\* every snapshot of a region in the order the provider lists them
Listing(cat, region, order) ==
    LET all == Catalog(cat, region)
        ids == SetToSeq(DOMAIN cat[region]) \o AutoIds(region)
        asc == [i \in 1..Len(ids) |-> Described(region, ids[i], all[ids[i]])]
    IN  IF order = "asc" THEN asc ELSE Reverse(asc)

\* a page of a list: the records from position start on, and a Marker exactly
\* when records remain after it
PageOf(key, list, start, size) ==
    LET last == Min(start + size - 1, Len(list))
        page == SubSeq(list, start, last)
    IN  IF last < Len(list)
        THEN [Marker |-> last + 1] @@ (key :> page)
        ELSE (key :> page)

DescribeDBSnapshots(cat, region, order, call) ==
    IF "DBSnapshotIdentifier" \in DOMAIN call
    THEN LET all == Catalog(cat, region)
         IN  IF call.DBSnapshotIdentifier \in DOMAIN all
             THEN [DBSnapshots |->
                     <<Described(region, call.DBSnapshotIdentifier,
                                 all[call.DBSnapshotIdentifier])>>]
             ELSE [Error |-> "DBSnapshotNotFound"]
    ELSE LET Wanted(s) ==
                 /\ "DBInstanceIdentifier" \in DOMAIN call
                        => s.DBInstanceIdentifier = call.DBInstanceIdentifier
                 /\ "SnapshotType" \in DOMAIN call
                        => s.SnapshotType = call.SnapshotType
             list  == SelectSeq(Listing(cat, region, order), Wanted)
             start == IF "Marker" \in DOMAIN call THEN call.Marker ELSE 1
             size  == IF "MaxRecords" \in DOMAIN call THEN call.MaxRecords
                      ELSE PageSize
         IN  PageOf("DBSnapshots", list, start, size)

InstanceIds(region) ==
    IF region = HomeRegion
    THEN {instances[i].DBInstanceIdentifier : i \in 1..Len(instances)}
    ELSE {}

DescribeDBInstances(region, call) ==
    LET list  == IF region # HomeRegion THEN << >>
                 ELSE [i \in 1..Len(instances) |->
                         [DBInstanceIdentifier |-> instances[i].DBInstanceIdentifier,
                          DBInstanceArn |->
                             InstanceArn(region, instances[i].DBInstanceIdentifier),
                          InstanceCreateTime |-> i]]
        start == IF "Marker" \in DOMAIN call THEN call.Marker ELSE 1
    IN  PageOf("DBInstances", list, start, PageSize)

\* list_tags_for_resource(ResourceName=arn)['TagList']
ListTagsForResource(cat, arn) ==
    IF arn.kind = "snapshot"
    THEN DictToTagList(Catalog(cat, arn.region)[arn.name].Tags)
    ELSE LET i == CHOOSE j \in 1..Len(instances) :
                      instances[j].DBInstanceIdentifier = arn.name
         IN  DictToTagList(instances[i].Tags)

\* the result of a mutating call: the error raised (None when it succeeded)
\* and the manual snapshots after it
Outcome(err, cat) == [Error |-> err, snapshots |-> cat]

NewSnapshot(instance, tags) ==
    [DBInstanceIdentifier |-> instance, SnapshotType |-> "manual",
     SnapshotCreateTime |-> 0, Tags |-> tags]

Put(cat, region, id, rec) ==
    [cat EXCEPT ![region] =
        [k \in DOMAIN cat[region] \cup {id} |->
            IF k = id THEN rec ELSE cat[region][k]]]

CreateDBSnapshot(cat, region, call) ==
    IF ~ParamsValid(call, {"DBSnapshotIdentifier", "DBInstanceIdentifier"},
                    {"DBSnapshotIdentifier", "DBInstanceIdentifier", "Tags"})
    THEN Outcome("ParamValidationError", cat)
    ELSE IF call.DBInstanceIdentifier \notin InstanceIds(region)
    THEN Outcome("DBInstanceNotFound", cat)
    ELSE IF call.DBSnapshotIdentifier \in DOMAIN Catalog(cat, region)
    THEN Outcome("DBSnapshotAlreadyExists", cat)
    ELSE Outcome(None, Put(cat, region, call.DBSnapshotIdentifier,
                           NewSnapshot(call.DBInstanceIdentifier, EmptyDict)))

\* copy_db_snapshot on the client of `region`; the source is an id of the same
\* region or, with SourceRegion given, the ARN of a snapshot of that region
CopyDBSnapshot(cat, region, call) ==
    IF ~ParamsValid(call, {"SourceDBSnapshotIdentifier", "TargetDBSnapshotIdentifier"},
                    {"SourceDBSnapshotIdentifier", "TargetDBSnapshotIdentifier",
                     "SourceRegion", "CopyTags", "Tags"})
    THEN Outcome("ParamValidationError", cat)
    ELSE LET src     == call.SourceDBSnapshotIdentifier
             by_arn  == "SourceRegion" \in DOMAIN call
             from    == IF by_arn THEN src.region ELSE region
             src_id  == IF by_arn THEN src.name ELSE src
             sources == Catalog(cat, from)
         IN  IF src_id \notin DOMAIN sources
             THEN Outcome("DBSnapshotNotFound", cat)
             ELSE IF call.TargetDBSnapshotIdentifier \in DOMAIN Catalog(cat, region)
             THEN Outcome("DBSnapshotAlreadyExists", cat)
             ELSE Outcome(None,
                      Put(cat, region, call.TargetDBSnapshotIdentifier,
                          NewSnapshot(sources[src_id].DBInstanceIdentifier,
                                      IF "CopyTags" \in DOMAIN call /\ call.CopyTags
                                      THEN sources[src_id].Tags ELSE EmptyDict)))

DeleteDBSnapshot(cat, region, call) ==
    IF ~ParamsValid(call, {"DBSnapshotIdentifier"}, {"DBSnapshotIdentifier"})
    THEN Outcome("ParamValidationError", cat)
    ELSE IF call.DBSnapshotIdentifier \notin DOMAIN cat[region]
    THEN Outcome("DBSnapshotNotFound", cat)
    ELSE Outcome(None,
             [cat EXCEPT ![region] =
                 [k \in DOMAIN cat[region] \ {call.DBSnapshotIdentifier} |->
                     cat[region][k]]])

\* add_tags_to_resource: a tag of a key the resource already has is overwritten
AddTagsToResource(cat, call) ==
    LET arn == call.ResourceName
        new == TagListToDict(call.Tags)
        old == cat[arn.region][arn.name].Tags
    IN  IF arn.name \notin DOMAIN cat[arn.region]
        THEN Outcome("DBSnapshotNotFound", cat)
        ELSE Outcome(None,
                 [cat EXCEPT ![arn.region][arn.name].Tags =
                     [k \in DOMAIN old \cup DOMAIN new |->
                         IF k \in DOMAIN new THEN new[k] ELSE old[k]]])

-----------------------------------------------------------------------------
(* The adapter: ShelveryRDSBackup.  Each method is an operator giving the  *)
(* effect of running it now: the exception raised (None when it returns), *)
(* the value returned, the state of the descriptor passed in after the    *)
(* call, the manual snapshots after the call and the provider calls made. *)
(* self stands for the adapter object and the process it runs in:         *)
(* self.region is boto3.session.Session().region_name, the region of the  *)
(* clients made without a region_name.                                    *)

\* the descriptor slot of a method that is passed no descriptor
NoDescriptor == [passed |-> FALSE]

Effect(error, value, object, cat, calls) ==
    [error |-> error, value |-> value, object |-> object,
     snapshots |-> cat, calls |-> calls]

\* BackupResource.construct(tag_prefix, backup_id, tags)
construct(tag_prefix, backup_id, tags) ==
    [tag_prefix |-> tag_prefix, backup_id |-> backup_id, tags |-> tags]

\* EntityResource(resource_id, resource_region, date_created, tags)
EntityResource(resource_id, resource_region, date_created, tags) ==
    [resource_id |-> resource_id, resource_region |-> resource_region,
     date_created |-> date_created, tags |-> tags]

\* backup_from_instance with line 56 moved above the provider call
backup_id_set_first(self, backup_resource) ==
    LET call == [api |-> "create_db_snapshot",
                 DBSnapshotIdentifier |-> backup_resource.name,
                 DBInstanceIdentifier |-> backup_resource.entity_id]
        out  == CreateDBSnapshot(snapshots, self.region, call)
        done == [backup_resource EXCEPT !.backup_id = backup_resource.name]
    IN  IF out.Error # None
        THEN Effect(out.Error, None, done, snapshots, <<call>>)
        ELSE Effect(None, done, done, out.snapshots, <<call>>)

backup_from_instance(self, backup_resource) ==
    LET call == [api |-> "create_db_snapshot",
                 DBSnapshotIdentifier |-> backup_resource.name,
                 DBInstanceIdentifier |-> backup_resource.entity_id]
        out  == CreateDBSnapshot(snapshots, self.region, call)
    IN  IF out.Error # None
        THEN Effect(out.Error, None, backup_resource, snapshots, <<call>>)
        ELSE LET done == [backup_resource EXCEPT !.backup_id = backup_resource.name]
             IN  Effect(None, done, done, out.snapshots, <<call>>)

\* the describe call of backup_from_latest_automated
AutomatedSnapshotsCall(backup_resource) ==
    [api |-> "describe_db_snapshots",
     DBInstanceIdentifier |-> backup_resource.entity_id,
     SnapshotType |-> "automated",
     MaxRecords |-> MaxRecords]

backup_from_latest_automated(self, backup_resource) ==
    LET list == AutomatedSnapshotsCall(backup_resource)
        resp == DescribeDBSnapshots(snapshots, self.region, provider_order, list)
        auto_snapshots == SortedByCreateTimeDesc(resp.DBSnapshots)
    IN  IF auto_snapshots = << >>
        THEN Effect("IndexError", None, backup_resource, snapshots, <<list>>)
        ELSE LET call == [api |-> "copy_db_snapshot",
                          SourceDBSnapshotIdentifier |->
                              auto_snapshots[1].DBSnapshotIdentifier,
                          TargetDBSnapshotIdentifier |-> backup_resource.name,
                          CopyTags |-> FALSE]
                 out  == CopyDBSnapshot(snapshots, self.region, call)
             IN  IF out.Error # None
                 THEN Effect(out.Error, None, backup_resource, snapshots,
                             <<list, call>>)
                 ELSE LET done == [backup_resource EXCEPT
                                      !.backup_id = backup_resource.name]
                      IN  Effect(None, done, done, out.snapshots, <<list, call>>)

\* the provider call delete_backup makes
DeleteCall(backup_resource) ==
    [api |-> "delete_db_snapshot",
     DBInstanceIdentifier |-> backup_resource.entity_id]

delete_backup(self, backup_resource) ==
    LET call == DeleteCall(backup_resource)
        out  == DeleteDBSnapshot(snapshots, self.region, call)
    IN  Effect(out.Error, None, backup_resource, out.snapshots, <<call>>)

tag_backup_resource(self, backup_resource) ==
    LET look == [api |-> "describe_db_snapshots",
                 DBSnapshotIdentifier |-> backup_resource.backup_id]
        resp == DescribeDBSnapshots(snapshots, self.region, provider_order, look)
    IN  IF "Error" \in DOMAIN resp
        THEN Effect(resp.Error, None, backup_resource, snapshots, <<look>>)
        ELSE LET call == [api |-> "add_tags_to_resource",
                          ResourceName |-> resp.DBSnapshots[1].DBSnapshotArn,
                          Tags |-> DictToTagList(backup_resource.tags)]
                 out  == AddTagsToResource(snapshots, call)
             IN  Effect(out.Error, None, backup_resource, out.snapshots,
                        <<look, call>>)

\* the tag get_backup_resource reads the tag prefix from
TagNameKey == "shelvery:tag_name"

get_backup_resource(self, backup_region, backup_id) ==
    LET look == [api |-> "describe_db_snapshots",
                 DBSnapshotIdentifier |-> backup_id]
        resp == DescribeDBSnapshots(snapshots, backup_region, provider_order, look)
    IN  IF "Error" \in DOMAIN resp
        THEN Effect(resp.Error, None, NoDescriptor, snapshots, <<look>>)
        ELSE LET read   == [api |-> "list_tags_for_resource",
                            ResourceName |-> resp.DBSnapshots[1].DBSnapshotArn]
                 tags   == ListTagsForResource(snapshots, read.ResourceName)
                 d_tags == TagListToDict(tags)
             IN  IF TagNameKey \notin DOMAIN d_tags
                 THEN Effect("KeyError", None, NoDescriptor, snapshots, <<look, read>>)
                 ELSE Effect(None, construct(d_tags[TagNameKey], backup_id, d_tags),
                             NoDescriptor, snapshots, <<look, read>>)

\* copy_backup_to_region asking the provider to copy the tags
CopyTagsAsked == TRUE

\* the CopyTags argument of copy_backup_to_region
CopyTagsToRegion == FALSE

copy_backup_to_region(self, backup_id, region) ==
    LET local_region == self.region
        look == [api |-> "describe_db_snapshots",
                 DBSnapshotIdentifier |-> backup_id]
        resp == DescribeDBSnapshots(snapshots, local_region, provider_order, look)
    IN  IF "Error" \in DOMAIN resp
        THEN Effect(resp.Error, None, NoDescriptor, snapshots, <<look>>)
        ELSE LET call == [api |-> "copy_db_snapshot",
                          SourceDBSnapshotIdentifier |->
                              resp.DBSnapshots[1].DBSnapshotArn,
                          TargetDBSnapshotIdentifier |-> backup_id,
                          SourceRegion |-> local_region,
                          CopyTags |-> CopyTagsToRegion]
                 out  == CopyDBSnapshot(snapshots, region, call)
             IN  IF out.Error # None
                 THEN Effect(out.Error, None, NoDescriptor, snapshots, <<look, call>>)
                 ELSE Effect(None, backup_id, NoDescriptor, out.snapshots, <<look, call>>)

\* line 178: is the marker tag among the tags of the snapshot
HasMarkerTag(marker_tag, d_tags) == marker_tag \in DOMAIN d_tags

\* tags of a listed resource as the adapter's loops read them
TagsOf(arn) == TagListToDict(ListTagsForResource(snapshots, arn))

get_shelvery_backups_only(all_snapshots, backup_tag_prefix) ==
    LET marker_tag == backup_tag_prefix \o ":" \o BACKUP_MARKER_TAG
        Marked(snap) == HasMarkerTag(marker_tag, TagsOf(snap.DBSnapshotArn))
        kept == SelectSeq(all_snapshots, Marked)
    IN  [i \in 1..Len(kept) |->
            construct(backup_tag_prefix, kept[i].DBSnapshotIdentifier,
                      TagsOf(kept[i].DBSnapshotArn))]

\* the list_tags_for_resource calls of a filter loop, one per resource
TagReads(arns) ==
    [i \in 1..Len(arns) |->
        [api |-> "list_tags_for_resource", ResourceName |-> arns[i]]]

\* line 188: the first list call of collect_all_snapshots
FirstSnapshotsCall == [api |-> "describe_db_snapshots"]

\* line 191: the list call of the loop of collect_all_snapshots
NextSnapshotsCall(tmp_snapshots) == [api |-> "describe_db_snapshots"]

\* line 138 with a test for a key starting with the marker tag
IsTaggedByPrefix(tag_name, d_tags) ==
    \E k \in DOMAIN d_tags :
        /\ Len(k) >= Len(tag_name)
        /\ SubSeq(k, 1, Len(tag_name)) = tag_name

\* line 138: is the instance tagged with the marker tag
IsTagged(tag_name, d_tags) == tag_name \in DOMAIN d_tags

\* lines 131-145 of get_entities_to_backup, on the instances collected
EntitiesOf(db_instances, tag_name, local_region) ==
    LET InstanceTags(instance) ==
            TagListToDict(ListTagsForResource(snapshots, instance.DBInstanceArn))
        Tagged(instance) == IsTagged(tag_name, InstanceTags(instance))
        kept == SelectSeq(db_instances, Tagged)
    IN  [i \in 1..Len(kept) |->
            EntityResource(kept[i].DBInstanceIdentifier, local_region,
                           kept[i].InstanceCreateTime, InstanceTags(kept[i]))]

\* line 156: the first list call of get_all_instances
FirstInstancesCall == [api |-> "describe_db_instances"]

\* line 160: the list call of the loop of get_all_instances
NextInstancesCall(temp_instances) ==
    [api |-> "describe_db_instances", Marker |-> temp_instances.Marker]

-----------------------------------------------------------------------------
(* Arguments the calls are made with. *)

BackupResource(name, entity_id, backup_id, tags) ==
    [name |-> name, entity_id |-> entity_id, backup_id |-> backup_id, tags |-> tags]

\* the provenance tags the engine writes under a tag prefix
Provenance(prefix) ==
    ((prefix \o ":tag_name") :> prefix) @@
    ((prefix \o ":" \o BACKUP_MARKER_TAG) :> "true")

\* a tag whose key merely starts with the marker key of prefix "shelvery"
Lookalike == (("shelvery:" \o BACKUP_MARKER_TAG \o "-old") :> "true")

\* the tag prefix of the engine configuration each backup name belongs to
PrefixOf(name) == IF name = "bk1" THEN "shelvery" ELSE "acme"

\* new backups requested of backup_resource: backup_id is not set yet
Requests == {BackupResource(n, "db1", None, Provenance(PrefixOf(n))) : n \in Names}

\* descriptors of backups that were made: backup_id is the artifact's id, the
\* tags are the provenance tags under the prefix of the backup's engine
Backups == {BackupResource(n, "db1", n, Provenance(PrefixOf(n))) : n \in Names}

\* the marker tag an instance opts into backups with
InstanceMarker == "shelvery:create_backup"

\* tag sets an instance may carry
InstanceTagSets ==
    {EmptyDict,
     (InstanceMarker :> "true"),
     (InstanceMarker :> "true") @@ ("Name" :> "orders"),
     ((InstanceMarker \o "_never") :> "true"),
     ("shelvery:create" :> "true")}

InstanceName(i) == "db" \o ToString(i)

\* instance catalogs of n instances db1..dbn, each with one of the tag sets
InstanceCatalogs(n) ==
    {[i \in 1..n |-> [DBInstanceIdentifier |-> InstanceName(i), Tags |-> t[i]]] :
        t \in [1..n -> InstanceTagSets]}

-----------------------------------------------------------------------------
(* The state machine. *)

Idle == pc = "idle"

\* the adapter, in a process of each region
Adapters == {[region |-> r] : r \in Regions}

\* a call completes with effect eff
Complete(op, self, args, eff) ==
    /\ snapshots' = eff.snapshots
    /\ ret' = [op |-> op, self |-> self, args |-> args,
               status |-> IF eff.error = None THEN "returned" ELSE "raised",
               error |-> eff.error, value |-> eff.value,
               object |-> eff.object, calls |-> eff.calls]
    /\ pc' = "idle"
    /\ frame' = NoFrame
    /\ UNCHANGED <<rds_mode, auto_count, provider_order, instances>>

\* a call is suspended at a source line; it has no outcome yet
Suspend(line, locals) ==
    /\ pc' = line
    /\ frame' = locals
    /\ ret' = NoRet
    /\ UNCHANGED <<rds_mode, snapshots, auto_count, provider_order, instances>>

\* backup_resource up to its first read of the mode (line 21)
BackupResourceLine21(self, backup_resource) ==
    /\ Idle
    /\ IF rds_mode = RDS_CREATE_SNAPSHOT
       THEN Complete("backup_resource", self,
                     [backup_resource |-> backup_resource, mode |-> rds_mode],
                     backup_from_instance(self, backup_resource))
       ELSE Suspend("backup_resource:23",
                    [op |-> "backup_resource", self |-> self,
                     backup_resource |-> backup_resource, mode |-> rds_mode])

\* backup_resource from its second read of the mode (line 23) on
BackupResourceLine23 ==
    /\ pc = "backup_resource:23"
    /\ LET args == [backup_resource |-> frame.backup_resource, mode |-> frame.mode]
       IN  IF rds_mode = RDS_COPY_AUTOMATED_SNAPSHOT
           THEN Complete("backup_resource", frame.self, args,
                         backup_from_latest_automated(frame.self,
                                                      frame.backup_resource))
           ELSE Complete("backup_resource", frame.self, args,
                         Effect("ConfigurationError", None, frame.backup_resource,
                                snapshots, << >>))

DeleteBackup(self, backup_resource) ==
    /\ Idle
    /\ Complete("delete_backup", self, [backup_resource |-> backup_resource],
                delete_backup(self, backup_resource))

TagBackupResource(self, backup_resource) ==
    /\ Idle
    /\ Complete("tag_backup_resource", self, [backup_resource |-> backup_resource],
                tag_backup_resource(self, backup_resource))

GetBackupResource(self, backup_region, backup_id) ==
    /\ Idle
    /\ Complete("get_backup_resource", self,
                [backup_region |-> backup_region, backup_id |-> backup_id],
                get_backup_resource(self, backup_region, backup_id))

CopyBackupToRegion(self, backup_id, region) ==
    /\ Idle
    /\ Complete("copy_backup_to_region", self,
                [backup_id |-> backup_id, region |-> region],
                copy_backup_to_region(self, backup_id, region))

\* get_existing_backups once a page of collect_all_snapshots has arrived:
\* the loop goes on while the page carries a Marker, then the filter runs
AfterSnapshotsPage(self, backup_tag_prefix, all_snapshots, tmp_snapshots, calls) ==
    IF "Marker" \in DOMAIN tmp_snapshots
    THEN Suspend("collect_all_snapshots:190",
                 [op |-> "get_existing_backups", self |-> self,
                  backup_tag_prefix |-> backup_tag_prefix,
                  all_snapshots |-> all_snapshots,
                  tmp_snapshots |-> tmp_snapshots,
                  calls |-> calls])
    ELSE Complete("get_existing_backups", self,
                  [backup_tag_prefix |-> backup_tag_prefix],
                  Effect(None,
                         get_shelvery_backups_only(all_snapshots, backup_tag_prefix),
                         NoDescriptor, snapshots,
                         calls \o TagReads([i \in 1..Len(all_snapshots) |->
                                               all_snapshots[i].DBSnapshotArn])))

GetExistingBackups(self, backup_tag_prefix) ==
    /\ Idle
    /\ LET tmp_snapshots == DescribeDBSnapshots(snapshots, self.region,
                                                provider_order, FirstSnapshotsCall)
       IN  AfterSnapshotsPage(self, backup_tag_prefix, tmp_snapshots.DBSnapshots,
                              tmp_snapshots, <<FirstSnapshotsCall>>)

\* one turn of the while loop of collect_all_snapshots
CollectAllSnapshotsLoop ==
    /\ pc = "collect_all_snapshots:190"
    /\ Len(frame.calls) < MaxCalls
    /\ LET call == NextSnapshotsCall(frame.tmp_snapshots)
           tmp_snapshots == DescribeDBSnapshots(snapshots, frame.self.region,
                                                provider_order, call)
       IN  AfterSnapshotsPage(frame.self, frame.backup_tag_prefix,
                              frame.all_snapshots \o tmp_snapshots.DBSnapshots,
                              tmp_snapshots, Append(frame.calls, call))

\* get_entities_to_backup once a page of get_all_instances has arrived
AfterInstancesPage(self, tag_name, db_instances, temp_instances, calls) ==
    IF "Marker" \in DOMAIN temp_instances
    THEN Suspend("get_all_instances:159",
                 [op |-> "get_entities_to_backup", self |-> self,
                  tag_name |-> tag_name,
                  db_instances |-> db_instances,
                  temp_instances |-> temp_instances,
                  calls |-> calls])
    ELSE Complete("get_entities_to_backup", self, [tag_name |-> tag_name],
                  Effect(None, EntitiesOf(db_instances, tag_name, self.region),
                         NoDescriptor, snapshots,
                         calls \o TagReads([i \in 1..Len(db_instances) |->
                                               db_instances[i].DBInstanceArn])))

GetEntitiesToBackup(self, tag_name) ==
    /\ Idle
    /\ LET temp_instances == DescribeDBInstances(self.region, FirstInstancesCall)
       IN  AfterInstancesPage(self, tag_name, temp_instances.DBInstances,
                              temp_instances, <<FirstInstancesCall>>)

\* one turn of the while loop of get_all_instances
GetAllInstancesLoop ==
    /\ pc = "get_all_instances:159"
    /\ Len(frame.calls) < MaxCalls
    /\ LET call == NextInstancesCall(frame.temp_instances)
           temp_instances == DescribeDBInstances(frame.self.region, call)
       IN  AfterInstancesPage(frame.self, frame.tag_name,
                              frame.db_instances \o temp_instances.DBInstances,
                              temp_instances, Append(frame.calls, call))

\* the process-wide backup mode is set to another value
SetMode(mode) ==
    /\ rds_mode # mode
    /\ rds_mode' = mode
    /\ UNCHANGED <<snapshots, auto_count, provider_order, instances,
                   pc, frame, ret>>

\* the snapshot catalog before the adapter has run: one manual snapshot that
\* is not a shelvery backup, in the home region
LegacySnapshots ==
    [r \in Regions |->
        IF r = HomeRegion
        THEN ("legacy" :> NewSnapshot("db1", Lookalike))
        ELSE [k \in {} |-> None]]

\* two instances, the first opted into backups; the provider keeps one
\* automated snapshot of it
Init ==
    /\ rds_mode \in Modes
    /\ snapshots = LegacySnapshots
    /\ auto_count = ("db1" :> 1) @@ ("db2" :> 0)
    /\ provider_order = "asc"
    /\ instances = <<[DBInstanceIdentifier |-> "db1",
                      Tags |-> (InstanceMarker :> "true")],
                     [DBInstanceIdentifier |-> "db2", Tags |-> EmptyDict]>>
    /\ pc = "idle"
    /\ frame = NoFrame
    /\ ret = NoRet

Next ==
    \/ \E self \in Adapters, b \in Requests : BackupResourceLine21(self, b)
    \/ BackupResourceLine23
    \/ \E self \in Adapters, b \in Backups : DeleteBackup(self, b)
    \/ \E self \in Adapters, b \in Backups : TagBackupResource(self, b)
    \/ \E self \in Adapters, r \in Regions, n \in Names : GetBackupResource(self, r, n)
    \/ \E self \in Adapters, r \in Regions, n \in Names : CopyBackupToRegion(self, n, r)
    \/ \E self \in Adapters, p \in Prefixes : GetExistingBackups(self, p)
    \/ CollectAllSnapshotsLoop
    \/ \E m \in Modes : SetMode(m)

Spec == Init /\ [][Next]_vars

-----------------------------------------------------------------------------
(* Discovery of the instances to back up, over every instance catalog of  *)
(* up to MaxInstances instances.                                          *)

\* marker tags discovery is asked for; the second is a prefix of the first
MarkerTags == {InstanceMarker, "shelvery:create"}

DiscoverInit ==
    /\ rds_mode = RDS_CREATE_SNAPSHOT
    /\ snapshots = LegacySnapshots
    /\ auto_count = ("db1" :> 1) @@ ("db2" :> 0)
    /\ provider_order = "asc"
    /\ instances \in UNION {InstanceCatalogs(n) : n \in 0..MaxInstances}
    /\ pc = "idle"
    /\ frame = NoFrame
    /\ ret = NoRet

DiscoverNext ==
    \/ \E self \in Adapters, t \in MarkerTags : GetEntitiesToBackup(self, t)
    \/ GetAllInstancesLoop

DiscoverSpec == DiscoverInit /\ [][DiscoverNext]_vars

-----------------------------------------------------------------------------
(* Backups of an instance of which the provider keeps any number of       *)
(* automated snapshots up to MaxAuto, listed oldest or newest first.      *)

AutoInit ==
    /\ rds_mode \in Modes
    /\ snapshots = LegacySnapshots
    /\ auto_count \in {("db1" :> n) @@ ("db2" :> m) : n \in 0..MaxAuto, m \in {0, 2}}
    /\ provider_order \in ProviderOrders
    /\ instances = <<[DBInstanceIdentifier |-> "db1",
                      Tags |-> (InstanceMarker :> "true")],
                     [DBInstanceIdentifier |-> "db2", Tags |-> EmptyDict]>>
    /\ pc = "idle"
    /\ frame = NoFrame
    /\ ret = NoRet

AutoNext ==
    \/ \E self \in Adapters, b \in Requests : BackupResourceLine21(self, b)
    \/ BackupResourceLine23
    \/ \E m \in Modes : SetMode(m)

AutoSpec == AutoInit /\ [][AutoNext]_vars

-----------------------------------------------------------------------------
(* What the claims speak of. *)

MutatingApis ==
    {"create_db_snapshot", "copy_db_snapshot", "delete_db_snapshot",
     "add_tags_to_resource"}

\* the calls among calls made to one of apis
CallsTo(calls, apis) ==
    LET To(c) == c.api \in apis IN SelectSeq(calls, To)

\* pages the provider serves the snapshot catalog of a region in
SnapshotPages(region) ==
    LET n == Len(Listing(snapshots, region, provider_order))
    IN  IF n = 0 THEN 1 ELSE (n + PageSize - 1) \div PageSize

\* pages the provider serves the instance catalog of a region in
InstancePages(region) ==
    LET n == IF region = HomeRegion THEN Len(instances) ELSE 0
    IN  IF n = 0 THEN 1 ELSE (n + PageSize - 1) \div PageSize

\* every list call after the first carries a continuation marker
MarkersForwarded(calls) == \A i \in 2..Len(calls) : "Marker" \in DOMAIN calls[i]

NoDuplicates(s) == \A i, j \in 1..Len(s) : s[i] = s[j] => i = j

\* the step completes a call of method op that ran start to end in this step
Did(op) ==
    /\ pc = "idle"
    /\ pc' = "idle"
    /\ ret'.op = op
    /\ rds_mode' = rds_mode

\* C1: collect_all_snapshots, as get_existing_backups calls it, forwards the
\* marker of the previous page on every further list call, stops after
\* exactly as many describe-snapshots calls as the catalog has pages, and
\* holds every snapshot of every page exactly once.
C1_CollectDrainsEveryPageOnce ==
    /\ pc = "collect_all_snapshots:190" =>
          /\ Len(frame.calls) < SnapshotPages(frame.self.region)
          /\ MarkersForwarded(frame.calls)
          /\ NoDuplicates(frame.all_snapshots)
    /\ ret.op = "get_existing_backups" =>
          LET lists == CallsTo(ret.calls, {"describe_db_snapshots"})
              reads == CallsTo(ret.calls, {"list_tags_for_resource"})
          IN  /\ Len(lists) = SnapshotPages(ret.self.region)
              /\ MarkersForwarded(lists)
              /\ NoDuplicates(reads)
              /\ {reads[i].ResourceName.name : i \in 1..Len(reads)}
                     = DOMAIN Catalog(snapshots, ret.self.region)

\* C2: delete_backup(B) issues a provider delete addressed by B.backup_id;
\* when B's artifact exists, afterwards it is gone from the catalog and every
\* other artifact, a sibling backup of the same instance included, is as it
\* was.
C2_DeleteRemovesThatBackupOnly ==
    [][(/\ Did("delete_backup")
        /\ ret'.args.backup_resource.backup_id
               \in DOMAIN snapshots[ret'.self.region])
       => LET b == ret'.args.backup_resource
              r == ret'.self.region
              deletes == CallsTo(ret'.calls, {"delete_db_snapshot"})
          IN  /\ Len(deletes) = 1
              /\ "DBSnapshotIdentifier" \in DOMAIN deletes[1]
              /\ deletes[1].DBSnapshotIdentifier = b.backup_id
              /\ b.backup_id \notin DOMAIN snapshots'[r]
              /\ \A q \in Regions :
                    \A id \in DOMAIN snapshots[q] :
                       (q # r \/ id # b.backup_id)
                          => /\ id \in DOMAIN snapshots'[q]
                             /\ snapshots'[q][id] = snapshots[q][id]]_vars

\* the automated snapshots the provider keeps of instance e in a region
AutomatedOf(region, e) ==
    LET all == Catalog(snapshots, region)
    IN  {id \in DOMAIN all : /\ all[id].SnapshotType = "automated"
                             /\ all[id].DBInstanceIdentifier = e}

\* C3: in mode COPY_AUTOMATED_SNAPSHOT, for an instance without automated
\* snapshot, backup_resource fails with NoAutomatedSnapshotError, issues no
\* copy, create, tag or delete call and leaves request.backup_id unset.
C3_NoAutomatedSnapshotIsAnExplicitError ==
    (/\ ret.op = "backup_resource"
     /\ ret.args.mode = RDS_COPY_AUTOMATED_SNAPSHOT
     /\ rds_mode = RDS_COPY_AUTOMATED_SNAPSHOT
     /\ AutomatedOf(ret.self.region, ret.args.backup_resource.entity_id) = {})
    => /\ ret.status = "raised"
       /\ ret.error = "NoAutomatedSnapshotError"
       /\ CallsTo(ret.calls, MutatingApis) = << >>
       /\ ret.object.backup_id = None

\* C4: in mode COPY_AUTOMATED_SNAPSHOT, a backup_resource that returns has
\* copied the automated snapshot whose creation time is the greatest over all
\* automated snapshots of the instance, under the id request.name and without
\* the tags of the source.
C4_CopiesTheLatestAutomatedSnapshot ==
    (/\ ret.op = "backup_resource"
     /\ ret.args.mode = RDS_COPY_AUTOMATED_SNAPSHOT
     /\ ret.status = "returned")
    => LET r      == ret.self.region
           req    == ret.args.backup_resource
           all    == Catalog(snapshots, r)
           copies == CallsTo(ret.calls, {"copy_db_snapshot"})
       IN  /\ Len(copies) = 1
           /\ copies[1].SourceDBSnapshotIdentifier \in AutomatedOf(r, req.entity_id)
           /\ \A id \in AutomatedOf(r, req.entity_id) :
                 all[id].SnapshotCreateTime
                    <= all[copies[1].SourceDBSnapshotIdentifier].SnapshotCreateTime
           /\ copies[1].TargetDBSnapshotIdentifier = req.name
           /\ req.name \in DOMAIN snapshots[r]
           /\ DOMAIN snapshots[r][req.name].Tags = {}

\* C5: with a mode other than the two valid ones when backup_resource is
\* called, the call fails with ConfigurationError and issues no create, copy,
\* tag or delete call; with a valid mode when it is called, it does not fail
\* with ConfigurationError.
C5_ModeAtCallTimeDecides ==
    ret.op = "backup_resource"
    => IF ret.args.mode \in {RDS_CREATE_SNAPSHOT, RDS_COPY_AUTOMATED_SNAPSHOT}
       THEN ret.error # "ConfigurationError"
       ELSE /\ ret.status = "raised"
            /\ ret.error = "ConfigurationError"
            /\ CallsTo(ret.calls, MutatingApis) = << >>


\* C6: get_entities_to_backup(marker_tag) returns exactly one EntityResource
\* for each instance of the catalog, whatever the number of pages it is
\* served in, that has marker_tag as a tag key, and none for another
\* instance; the list loop ends with the last page.
C6_EntitiesAreTheTagged ==
    /\ pc = "get_all_instances:159" =>
          Len(frame.calls) < InstancePages(frame.self.region)
    /\ ret.op = "get_entities_to_backup" =>
          LET tag_name == ret.args.tag_name
              found    == ret.value
              listed   == IF ret.self.region = HomeRegion THEN instances ELSE << >>
              tagged   == {i \in 1..Len(listed) : tag_name \in DOMAIN listed[i].Tags}
          IN  /\ ret.status = "returned"
              /\ Len(found) = Cardinality(tagged)
              /\ \A i \in tagged :
                    \E j \in 1..Len(found) :
                       /\ found[j].resource_id = listed[i].DBInstanceIdentifier
                       /\ found[j].resource_region = ret.self.region
                       /\ found[j].tags = listed[i].Tags
              /\ Len(CallsTo(ret.calls, {"describe_db_instances"}))
                    = InstancePages(ret.self.region)

\* the catalog spans several pages, more tagged instances than a page holds
\* were found and an instance whose only key starts with the marker tag was
\* left out
C6_Witness ==
    /\ ret.op = "get_entities_to_backup"
    /\ ret.args.tag_name = InstanceMarker
    /\ Len(CallsTo(ret.calls, {"describe_db_instances"})) > 1
    /\ Len(ret.value) > PageSize
    /\ \E i \in 1..Len(instances) :
          /\ DOMAIN instances[i].Tags = {InstanceMarker \o "_never"}
          /\ \A j \in 1..Len(ret.value) :
                ret.value[j].resource_id # instances[i].DBInstanceIdentifier

\* C7: for a backup B whose artifact exists and whose tags hold the
\* provenance entries under its tag prefix, tag_backup_resource(B) followed
\* by get_backup_resource(region, B.backup_id) returns a BackupResource whose
\* tags are B.tags.
C7_TagThenGetRoundTrips ==
    [][(/\ Did("get_backup_resource")
        /\ ret.op = "tag_backup_resource"
        /\ ret.status = "returned"
        /\ ret'.args.backup_region = ret.self.region
        /\ ret'.args.backup_id = ret.args.backup_resource.backup_id)
       => /\ ret'.status = "returned"
          /\ ret'.value.backup_id = ret.args.backup_resource.backup_id
          /\ ret'.value.tags = ret.args.backup_resource.tags]_vars

Untagged(cat, region, id) ==
    /\ id \in DOMAIN cat[region]
    /\ DOMAIN cat[region][id].Tags = {}

\* get_shelvery_backups_only, for some prefix, keeps the snapshot id of a region
KeptAsBackup(region, id) ==
    \E p \in Prefixes :
       get_shelvery_backups_only(
           <<Described(region, id, snapshots[region][id])>>, p) # << >>

\* C8: a copy_backup_to_region(backup_id, target_region) that returns,
\* returns backup_id, has made an artifact of that id in target_region with no
\* tags and has left every artifact there was as it was; an artifact without
\* tags stays without tags in every step but a tag_backup_resource on it, and
\* the filter of get_existing_backups keeps no artifact without tags.
C8_CopyKeepsIdAndAddsNoTags ==
    [][/\ (Did("copy_backup_to_region") /\ ret'.status = "returned")
          => LET id     == ret'.args.backup_id
                 target == ret'.args.region
             IN  /\ ret'.value = id
                 /\ id \notin DOMAIN snapshots[target]
                 /\ Untagged(snapshots', target, id)
                 /\ \A q \in Regions :
                       \A k \in DOMAIN snapshots[q] :
                          /\ k \in DOMAIN snapshots'[q]
                          /\ snapshots'[q][k] = snapshots[q][k]
       /\ \A r \in Regions, id \in Names :
             (Untagged(snapshots, r, id) /\ ~Untagged(snapshots', r, id))
             => /\ Did("tag_backup_resource")
                /\ ret'.self.region = r
                /\ ret'.args.backup_resource.backup_id = id
       /\ \A r \in Regions, id \in Names :
             Untagged(snapshots, r, id) => ~KeptAsBackup(r, id)]_vars

\* a tagged backup was copied to another region and the copy has no tags
C8_Witness ==
    /\ ret.op = "copy_backup_to_region"
    /\ ret.status = "returned"
    /\ ret.args.region # ret.self.region
    /\ ~Untagged(snapshots, ret.self.region, ret.args.backup_id)
    /\ Untagged(snapshots, ret.args.region, ret.args.backup_id)

\* C9: get_existing_backups(prefix) returns once the pages of the catalog
\* were read, and returns a descriptor for a snapshot if and only if the tags
\* of the snapshot hold the key prefix:backup-marker.
C9_ExistingBackupsAreTheMarked ==
    /\ pc = "collect_all_snapshots:190" =>
          Len(frame.calls) < SnapshotPages(frame.self.region)
    /\ ret.op = "get_existing_backups" =>
          LET all    == Catalog(snapshots, ret.self.region)
              marker == ret.args.backup_tag_prefix \o ":" \o BACKUP_MARKER_TAG
          IN  /\ ret.status = "returned"
              /\ \A id \in DOMAIN all :
                    (\E i \in 1..Len(ret.value) : ret.value[i].backup_id = id)
                       <=> marker \in DOMAIN all[id].Tags
              /\ \A i \in 1..Len(ret.value) : ret.value[i].backup_id \in DOMAIN all

\* C10: in mode CREATE_SNAPSHOT, backup_resource(request) issues exactly one
\* mutating call, a create-snapshot for the instance request.entity_id under
\* the id request.name; when it returns, the descriptor returned has
\* backup_id = name and the artifact exists; when the provider call fails,
\* backup_id is still unset.
C10_CreateSetsBackupIdOnSuccess ==
    (ret.op = "backup_resource" /\ ret.args.mode = RDS_CREATE_SNAPSHOT)
    => LET req   == ret.args.backup_resource
           calls == CallsTo(ret.calls, MutatingApis)
       IN  /\ req.backup_id = None
           /\ Len(calls) = 1
           /\ calls[1].api = "create_db_snapshot"
           /\ calls[1].DBSnapshotIdentifier = req.name
           /\ calls[1].DBInstanceIdentifier = req.entity_id
           /\ ret.status = "returned"
                 => /\ ret.value.backup_id = req.name
                    /\ ret.value.name = req.name
                    /\ ret.object = ret.value
                    /\ req.name \in DOMAIN snapshots[ret.self.region]
                    /\ snapshots[ret.self.region][req.name].DBInstanceIdentifier
                          = req.entity_id
           /\ ret.status = "raised"
                 => /\ ret.error # "ConfigurationError"
                    /\ ret.object.backup_id = None

\* a backup was made of a live instance
C10_Witness ==
    /\ ret.op = "backup_resource"
    /\ ret.args.mode = RDS_CREATE_SNAPSHOT
    /\ ret.status = "returned"
    /\ ret.value.backup_id = "bk2"

====
